---- MODULE Spec2Model ----
(***************************************************************************)
(* Model of tracker_app.py: the bulletin scraper (extract_india_dates,     *)
(* fetch_bulletin_dates, parse_priority_date, get_bulletin_url) and the    *)
(* incremental synchronisation of the CSV store (init_or_update_db).       *)
(*                                                                         *)
(* Text is a tuple of one-character strings, a Timestamp is a tuple        *)
(* <<year, month, day>>, pd.NaT is <<0, 0, 0>> and a CSV date cell is the  *)
(* number yyyymmdd (0 for the empty cell).                                 *)
(***************************************************************************)
EXTENDS Integers, Sequences, FiniteSets, TLC

VARIABLES
    file,                 \* DATA_FILE on disk: [exists, rows]
    web,                  \* the source site: url -> page
    today,                \* the wall clock, datetime.today()
    pc,                   \* position of the script in init_or_update_db
    df,                   \* local df of init_or_update_db
    current_month_start,  \* local of init_or_update_db
    missing_dates,        \* local of init_or_update_db
    i,                    \* loop index over missing_dates (1-based)
    new_rows,             \* local of init_or_update_db
    run,                  \* observations of the current / last sync run
    quiet,                \* completed runs since the world last changed
    raw_data,             \* extract_india_dates: the grid handed to it
    located               \* extract_india_dates: its return value

vars == <<file, web, today, pc, df, current_month_start, missing_dates, i,
          new_rows, run, quiet, raw_data, located>>

syncVars == <<file, web, today, pc, df, current_month_start, missing_dates, i,
              new_rows, run, quiet>>

(***************************************************************************)
(* Bounds                                                                  *)
(***************************************************************************)
MaxTodayMonth == 3
MaxRows == 3

\* days of the month the clock shows, and the widths of the grids tried
Days == {24, 25}
Widths == {1, 2}

(***************************************************************************)
(* Text                                                                    *)
(***************************************************************************)
LowerCase == <<"a","b","c","d","e","f","g","h","i","j","k","l","m",
               "n","o","p","q","r","s","t","u","v","w","x","y","z">>
UpperCase == <<"A","B","C","D","E","F","G","H","I","J","K","L","M",
               "N","O","P","Q","R","S","T","U","V","W","X","Y","Z">>
Digits == <<"0","1","2","3","4","5","6","7","8","9">>

Range(s) == {s[k] : k \in DOMAIN s}

IndexOf(s, x) == CHOOSE k \in DOMAIN s : s[k] = x

LowerSet == Range(LowerCase)
UpperSet == Range(UpperCase)
DigitSet == Range(Digits)

\* str.upper() on one character and on a text
UpperChar(c) == IF c \in LowerSet THEN UpperCase[IndexOf(LowerCase, c)] ELSE c

upper(s) == [k \in DOMAIN s |-> UpperChar(s[k])]

\* str.lower()
LowerChar(c) == IF c \in UpperSet THEN LowerCase[IndexOf(UpperCase, c)] ELSE c

lower(s) == [k \in DOMAIN s |-> LowerChar(s[k])]

\* str.strip(): leading and trailing blanks removed
RECURSIVE lstrip(_)
lstrip(s) == IF s # <<>> /\ Head(s) = " " THEN lstrip(Tail(s)) ELSE s

RECURSIVE rstrip(_)
rstrip(s) == IF s # <<>> /\ s[Len(s)] = " " THEN rstrip(SubSeq(s, 1, Len(s) - 1)) ELSE s

strip(s) == rstrip(lstrip(s))

\* needle in haystack (Python's substring test), scanning start positions
RECURSIVE ContainsFrom(_, _, _)
ContainsFrom(hay, needle, p) ==
    IF p + Len(needle) - 1 > Len(hay) THEN FALSE
    ELSE IF SubSeq(hay, p, p + Len(needle) - 1) = needle THEN TRUE
    ELSE ContainsFrom(hay, needle, p + 1)

Contains(hay, needle) == ContainsFrom(hay, needle, 1)

\* \w of the regular expression
WordChars == LowerSet \cup UpperSet \cup DigitSet \cup {"_"}

IsWordChar(c) == c \in WordChars

\* re.search(r'\bTOKEN\b', s) for a TOKEN that starts and ends with a word character
RECURSIVE WordSearchFrom(_, _, _)
WordSearchFrom(s, token, p) ==
    IF p + Len(token) - 1 > Len(s) THEN FALSE
    ELSE IF /\ SubSeq(s, p, p + Len(token) - 1) = token
            /\ (p = 1 \/ ~IsWordChar(s[p - 1]))
            /\ (p + Len(token) > Len(s) \/ ~IsWordChar(s[p + Len(token)]))
         THEN TRUE
         ELSE WordSearchFrom(s, token, p + 1)

\* mutant: the pattern without its \b anchors
re_search_unanchored(token, s) == ContainsFrom(s, token, 1)

re_search_word(token, s) == WordSearchFrom(s, token, 1)

INDIA == <<"I","N","D","I","A">>
T2ND == <<"2","N","D">>
T3RD == <<"3","R","D">>

\* Python's None and pandas' NaN as cell values (no text is equal to either)
None == <<"None">>
NaN == <<"nan-float">>

\* str(cell)
str(cell) == IF cell = None THEN <<"N","o","n","e">>
             ELSE IF cell = NaN THEN <<"n","a","n">>
             ELSE cell

(***************************************************************************)
(* Timestamps                                                              *)
(***************************************************************************)
NaT == <<0, 0, 0>>

isna(t) == t = NaT

\* a < b on Timestamps
DateLess(a, b) ==
    \/ a[1] < b[1]
    \/ a[1] = b[1] /\ a[2] < b[2]
    \/ a[1] = b[1] /\ a[2] = b[2] /\ a[3] < b[3]

DateGeq(a, b) == ~DateLess(a, b)

MONTHS == << <<"j","a","n","u","a","r","y">>, <<"f","e","b","r","u","a","r","y">>,
             <<"m","a","r","c","h">>, <<"a","p","r","i","l">>, <<"m","a","y">>,
             <<"j","u","n","e">>, <<"j","u","l","y">>, <<"a","u","g","u","s","t">>,
             <<"s","e","p","t","e","m","b","e","r">>, <<"o","c","t","o","b","e","r">>,
             <<"n","o","v","e","m","b","e","r">>, <<"d","e","c","e","m","b","e","r">> >>

MONTHS_DICT == [k \in 1..12 |-> MONTHS[k]]

\* today + pd.DateOffset(months=1), reduced to (year, month): the day is clipped
\* to the length of the target month and init_or_update_db never reads it
next_month_of(t) == IF t[2] = 12 THEN <<t[1] + 1, 1>> ELSE <<t[1], t[2] + 1>>

\* pd.date_range(start, end, freq='MS') for month starts start <= end
RECURSIVE date_range(_, _)
date_range(start, end) ==
    IF DateLess(end, start) THEN <<>>
    ELSE <<start>> \o date_range(<<next_month_of(start)[1], next_month_of(start)[2], 1>>, end)

start_date == <<2017, 1, 1>>

(***************************************************************************)
(* parse_priority_date                                                     *)
(***************************************************************************)
MonthAbbr == << <<"J","A","N">>, <<"F","E","B">>, <<"M","A","R">>, <<"A","P","R">>,
                <<"M","A","Y">>, <<"J","U","N">>, <<"J","U","L">>, <<"A","U","G">>,
                <<"S","E","P">>, <<"O","C","T">>, <<"N","O","V">>, <<"D","E","C">> >>

DigitVal(c) == IndexOf(Digits, c) - 1

DaysInMonth(y, m) ==
    IF m = 2 THEN (IF y % 4 = 0 THEN 29 ELSE 28)
    ELSE IF m \in {4, 6, 9, 11} THEN 30 ELSE 31

\* pd.to_datetime(s, format='%d%b%y'): two digits, a month abbreviation, two
\* digits (years 00..68 are 20xx, 69..99 are 19xx); NaT stands for the raise
strptime_dby(s) ==
    IF /\ Len(s) = 7
       /\ \A k \in {1, 2, 6, 7} : s[k] \in DigitSet
       /\ \E m \in DOMAIN MonthAbbr : MonthAbbr[m] = SubSeq(s, 3, 5)
    THEN LET dd == DigitVal(s[1]) * 10 + DigitVal(s[2])
             mm == IndexOf(MonthAbbr, SubSeq(s, 3, 5))
             yy == DigitVal(s[6]) * 10 + DigitVal(s[7])
             yyyy == IF yy < 69 THEN 2000 + yy ELSE 1900 + yy
         IN  IF dd >= 1 /\ dd <= DaysInMonth(yyyy, mm) THEN <<yyyy, mm, dd>> ELSE NaT
    ELSE NaT

parse_priority_date(date_str, bulletin_date) ==
    IF date_str = None \/ date_str = <<>> \/ date_str = NaN THEN NaT
    ELSE LET s == upper(strip(str(date_str)))
         IN  IF s \in {<<"C">>, <<"C","U","R","R","E","N","T">>} THEN bulletin_date
             ELSE IF s \in {<<"U">>, <<"U","N","A","U","T","H","O","R","I","Z","E","D">>,
                            <<"U","N","A","V","A","I","L","A","B","L","E">>} THEN NaT
             \* the permissive second parse is reached only by text the strict
             \* format rejects; for the cells of Pages below it raises as well
             ELSE strptime_dby(s)

(***************************************************************************)
(* get_bulletin_url                                                        *)
(***************************************************************************)
\* the URL is the triple its template embeds: fiscal year, month name, year
get_bulletin_url(month_name, year) ==
    LET month_idx == IndexOf(MONTHS, lower(month_name))
        fiscal_year == IF month_idx >= 10 THEN year + 1 ELSE year
    IN  <<fiscal_year, lower(month_name), year>>

(***************************************************************************)
(* extract_india_dates                                                     *)
(* Indices are 1-based here; 0 stands for Python's None.                   *)
(***************************************************************************)
\* lines 66-69: the first j in the row whose cell contains INDIA
RECURSIVE india_in_row(_, _)
india_in_row(row, j) ==
    IF j > Len(row) THEN 0
    ELSE IF Contains(upper(str(row[j])), INDIA) THEN j
    ELSE india_in_row(row, j + 1)

\* lines 64-71
RECURSIVE find_india_col_idx(_, _)
find_india_col_idx(raw, r) ==
    IF r > Len(raw) THEN 0
    ELSE LET j == india_in_row(raw[r], 1)
         IN  IF j # 0 THEN j ELSE find_india_col_idx(raw, r + 1)

row_has_token(row, token) ==
    \E j \in DOMAIN row : re_search_word(token, upper(str(row[j])))

\* lines 76-84: one pass over the rows that fixes both row indices
RECURSIVE find_row_idx(_, _, _, _)
find_row_idx(raw, r, second_row_idx, third_row_idx) ==
    IF r > Len(raw) THEN <<second_row_idx, third_row_idx>>
    ELSE LET s == IF second_row_idx = 0 /\ row_has_token(raw[r], T2ND)
                  THEN r ELSE second_row_idx
             t == IF third_row_idx = 0 /\ row_has_token(raw[r], T3RD)
                  THEN r ELSE third_row_idx
         IN  IF s # 0 /\ t # 0 THEN <<s, t>>
             ELSE find_row_idx(raw, r + 1, s, t)

\* lines 88-94: the cell of row row_idx at column col_idx, when there is one
cell_at(raw, row_idx, col_idx) ==
    IF row_idx # 0 /\ col_idx <= Len(raw[row_idx]) THEN raw[row_idx][col_idx] ELSE None

extract_india_dates(raw) ==
    LET india_col_idx == find_india_col_idx(raw, 1)
        rows == find_row_idx(raw, 1, 0, 0)
    IN  IF india_col_idx # 0
        THEN [eb2_date |-> cell_at(raw, rows[1], india_col_idx),
              eb3_date |-> cell_at(raw, rows[2], india_col_idx)]
        ELSE [eb2_date |-> None, eb3_date |-> None]

(***************************************************************************)
(* The source site                                                         *)
(***************************************************************************)
c_EB == <<"E","B">>
c_India == <<"I","n","d","i","a">>
c_2nd == <<"2","n","d">>
c_3rd == <<"3","r","d">>
c_22nd == <<"2","2","N","D","/","3","r","d">>
c_05FEB12 == <<"0","5","F","E","B","1","2">>
c_01JAN12 == <<"0","1","J","A","N","1","2">>
c_01DEC13 == <<"0","1","D","E","C","1","3">>
c_U == <<"U">>
c_current == <<"c"," ">>

\* the tables pd.read_html returns, header row first (lines 60-62)
FadGrid == << <<c_EB, c_India>>, <<c_2nd, c_01JAN12>>, <<c_3rd, c_01DEC13>> >>
DofGrid == << <<c_EB, c_India>>, <<c_2nd, c_05FEB12>>, <<c_3rd, c_current>> >>
UnavailableGrid == << <<c_EB, c_India>>, <<c_2nd, c_U>>, <<c_3rd, c_U>> >>

\* the pages the site can serve for a bulletin URL, by name
Pages == {"NotPublished", "Published", "FilingOnly"}

\* requests.get(url): the response for the page the site serves
response_of(page) ==
    CASE page = "NotPublished" -> [status_code |-> 404, tables |-> <<>>]
      [] page = "Published" -> [status_code |-> 200, tables |-> <<FadGrid, DofGrid>>]
      [] page = "FilingOnly" -> [status_code |-> 200, tables |-> <<UnavailableGrid, DofGrid>>]

\* the bulletins the model's clock can ever ask for
Bulletins == date_range(start_date, <<2017, MaxTodayMonth + 1, 1>>)

Urls == {get_bulletin_url(MONTHS_DICT[Bulletins[k][2]], Bulletins[k][1]) : k \in DOMAIN Bulletins}

(***************************************************************************)
(* fetch_bulletin_dates                                                    *)
(***************************************************************************)
\* `if eb2_d:` — None and the empty text are false, NaN and any other text true
truthy(cell) == cell # None /\ cell # <<>>

\* lines 110-116: the cells found over the tables, in table order
RECURSIVE dates_found(_, _, _)
dates_found(tables, k, which) ==
    IF k > Len(tables) THEN <<>>
    ELSE LET got == extract_india_dates(tables[k])
             cell == IF which = 2 THEN got.eb2_date ELSE got.eb3_date
         IN  (IF truthy(cell) THEN <<cell>> ELSE <<>>) \o dates_found(tables, k + 1, which)

all_nat == [eb2_fad |-> NaT, eb2_dof |-> NaT, eb3_fad |-> NaT, eb3_dof |-> NaT]

\* lines 104-129: what fetch_bulletin_dates makes of the response
scrape(response, month_name, year) ==
    IF response.status_code # 200 THEN all_nat
    ELSE LET dates_found_eb2 == dates_found(response.tables, 1, 2)
             dates_found_eb3 == dates_found(response.tables, 1, 3)
             bulletin_date == <<year, IndexOf(MONTHS, lower(month_name)), 1>>
             nth(found, n) == IF Len(found) >= n
                              THEN parse_priority_date(found[n], bulletin_date)
                              ELSE NaT
         IN  [eb2_fad |-> nth(dates_found_eb2, 1), eb2_dof |-> nth(dates_found_eb2, 2),
              eb3_fad |-> nth(dates_found_eb3, 1), eb3_dof |-> nth(dates_found_eb3, 2)]

\* scrape is a function of the page served and of the bulletin asked for; it is
\* tabulated once over the pages and bulletins of the model
Scraped == [page \in Pages, k \in DOMAIN Bulletins |->
               scrape(response_of(page), MONTHS_DICT[Bulletins[k][2]], Bulletins[k][1])]

fetch_bulletin_dates(month_name, year) ==
    LET url == get_bulletin_url(month_name, year)
        k == CHOOSE n \in DOMAIN Bulletins :
                 get_bulletin_url(MONTHS_DICT[Bulletins[n][2]], Bulletins[n][1]) = url
    IN  Scraped[web[url], k]

(***************************************************************************)
(* DATA_FILE                                                               *)
(***************************************************************************)
NoFile == [exists |-> FALSE, rows |-> <<>>]

\* a Timestamp written by to_csv: yyyy-mm-dd, the empty cell for NaT
csv_cell(t) == IF isna(t) THEN 0 ELSE t[1] * 10000 + t[2] * 100 + t[3]

\* pd.to_datetime of a cell read by read_csv
to_datetime(n) == IF n = 0 THEN NaT ELSE <<n \div 10000, (n \div 100) % 100, n % 100>>

to_csv(frame) == [k \in DOMAIN frame |-> [f \in DOMAIN frame[k] |-> csv_cell(frame[k][f])]]

read_csv(rows) == [k \in DOMAIN rows |-> [f \in DOMAIN rows[k] |-> to_datetime(rows[k][f])]]

Bulletin_Dates(frame) == {frame[k].Bulletin_Date : k \in DOMAIN frame}

(***************************************************************************)
(* init_or_update_db                                                       *)
(***************************************************************************)
\* mutant: the horizon stops at the current month
target_date_current_month(t) == <<t[1], t[2], 1>>

\* lines 147-148
target_date_of(t) == <<next_month_of(t)[1], next_month_of(t)[2], 1>>

\* mutant: every expected month counts as missing, stored or not
missing_ignores_store(frame, dates_to_check) == dates_to_check

\* lines 153-156
missing_of(frame, dates_to_check) ==
    SelectSeq(dates_to_check, LAMBDA d : frame = <<>> \/ d \notin Bulletin_Dates(frame))

\* line 169
no_final_action(res) == isna(res.eb2_fad) /\ isna(res.eb3_fad)

\* mutant: the new rows replace the stored ones
concat_drops_stored(frame, frame_new) == frame_new

\* line 188
concat(frame, frame_new) == frame \o frame_new

\* line 189: sort_values(by='Bulletin_Date')
RECURSIVE insert_sorted(_, _)
insert_sorted(sorted, row) ==
    IF sorted = <<>> THEN <<row>>
    ELSE IF DateLess(row.Bulletin_Date, Head(sorted).Bulletin_Date) THEN <<row>> \o sorted
    ELSE <<Head(sorted)>> \o insert_sorted(Tail(sorted), row)

RECURSIVE sort_from(_, _, _)
sort_from(frame, k, acc) ==
    IF k > Len(frame) THEN acc ELSE sort_from(frame, k + 1, insert_sorted(acc, frame[k]))

\* mutant: the merged frame is written as concatenated
sort_values_skipped(frame) == frame

sort_values(frame) == sort_from(frame, 1, <<>>)

\* mutant: the store is written and the rerun signalled after every loop
has_new_rows_always(rows) == TRUE

\* line 186
has_new_rows(rows) == rows # <<>>

NoRun == [fetched |-> <<>>, sinceFetch |-> "none", file0 |-> NoFile, today0 |-> NaT,
          wrote |-> FALSE, rerun |-> FALSE, added |-> 0, series |-> <<>>, done |-> FALSE]

Min(a, b) == IF a < b THEN a ELSE b

\* the function returns (or st.rerun() ends the script): its locals are gone and
\* the run's outcome is what the caller sees
Return(seen, frame, wrote, added) ==
    /\ run' = [seen EXCEPT !.wrote = wrote, !.rerun = wrote, !.added = added,
                           !.series = frame, !.done = TRUE]
    /\ pc' = "idle"
    /\ df' = <<>>
    /\ current_month_start' = NaT
    /\ missing_dates' = <<>>
    /\ i' = 1
    /\ new_rows' = <<>>
    /\ quiet' = Min(quiet + 1, 2)

\* lines 134-158: load the store, compute the missing months
StartSync ==
    /\ pc = "idle"
    /\ LET frame == IF file.exists THEN read_csv(file.rows) ELSE <<>>
           target_date == target_date_of(today)
           dates_to_check == date_range(start_date, target_date)
           missing == missing_of(frame, dates_to_check)
       IN  IF missing = <<>>
           THEN /\ Return([NoRun EXCEPT !.file0 = file, !.today0 = today], frame, FALSE, 0)
                /\ UNCHANGED file
           ELSE /\ df' = frame
                /\ current_month_start' = <<today[1], today[2], 1>>
                /\ missing_dates' = missing
                /\ i' = 1
                /\ new_rows' = <<>>
                /\ run' = [NoRun EXCEPT !.file0 = file, !.today0 = today]
                /\ pc' = "loop"
                /\ UNCHANGED <<file, quiet>>
    /\ UNCHANGED <<web, today, raw_data, located>>

\* lines 163-181: one iteration of the loop up to its break, continue or append
FetchStep ==
    /\ pc = "loop"
    /\ i <= Len(missing_dates)
    /\ LET d == missing_dates[i]
           month_name == MONTHS_DICT[d[2]]
           res == fetch_bulletin_dates(month_name, d[1])
       IN  /\ run' = [run EXCEPT !.fetched = Append(@, [d |-> d, res |-> res]),
                                 !.sinceFetch = "fetched"]
           /\ IF no_final_action(res)
              THEN /\ new_rows' = new_rows
                   /\ IF DateGeq(d, current_month_start)
                      THEN pc' = "after" /\ i' = i
                      ELSE pc' = "loop" /\ i' = i + 1
              ELSE /\ new_rows' = Append(new_rows,
                                         [Bulletin_Date |-> d, EB2_Filing |-> res.eb2_dof,
                                          EB2_FAD |-> res.eb2_fad, EB3_Filing |-> res.eb3_dof,
                                          EB3_FAD |-> res.eb3_fad])
                   /\ pc' = "sleep"
                   /\ i' = i
    /\ UNCHANGED <<file, web, today, df, current_month_start, missing_dates, quiet,
                   raw_data, located>>

\* lines 183-184: the pause that ends an iteration that appended a row
Sleep ==
    /\ pc = "sleep"
    /\ run' = [run EXCEPT !.sinceFetch = "slept"]
    /\ i' = i + 1
    /\ pc' = "loop"
    /\ UNCHANGED <<file, web, today, df, current_month_start, missing_dates, new_rows,
                   quiet, raw_data, located>>

\* lines 186-199: merge, sort, persist and rerun, or return the frame as loaded
Finish ==
    /\ pc = "after" \/ (pc = "loop" /\ i > Len(missing_dates))
    /\ IF has_new_rows(new_rows)
       THEN LET merged == sort_values(concat(df, new_rows))
            IN  /\ file' = [exists |-> TRUE, rows |-> to_csv(merged)]
                /\ Return(run, merged, TRUE, Len(new_rows))
       ELSE /\ UNCHANGED file
            /\ Return(run, df, FALSE, 0)
    /\ UNCHANGED <<web, today, raw_data, located>>

\* what the world does between two runs of the script leaves no run to observe
Between ==
    /\ pc = "idle"
    /\ run' = NoRun
    /\ quiet' = 0
    /\ UNCHANGED <<pc, df, current_month_start, missing_dates, i, new_rows,
                   raw_data, located>>

\* lines 208-215: the admin button deletes the store before the next sync
AdminReset ==
    /\ file.exists
    /\ file' = NoFile
    /\ Between
    /\ UNCHANGED <<web, today>>

\* the State Department publishes, revises or withdraws a bulletin page. A run
\* reads each page at most once, so a page that changes during a run is read
\* either before or after the change: pages change between runs.
Publish ==
    \E u \in Urls, p \in Pages :
        /\ web[u] # p
        /\ web' = [web EXCEPT ![u] = p]
        /\ Between
        /\ UNCHANGED <<file, today>>

FirstDay == CHOOSE d \in Days : \A e \in Days : d <= e

\* datetime.today() (line 144, read once per run) moves on: the next day of
\* Days, or the first of them in the next month
Tick ==
    /\ IF \E d \in Days : d > today[3]
       THEN today' = <<today[1], today[2],
                       CHOOSE d \in Days : d > today[3] /\ \A e \in Days : e > today[3] => d <= e>>
       ELSE today[2] < MaxTodayMonth /\ today' = <<today[1], today[2] + 1, FirstDay>>
    /\ Between
    /\ UNCHANGED <<file, web>>

InitSync ==
    /\ file = NoFile
    /\ web = [u \in Urls |-> "NotPublished"]
    /\ today = <<2017, 1, FirstDay>>
    /\ pc = "idle"
    /\ df = <<>>
    /\ current_month_start = NaT
    /\ missing_dates = <<>>
    /\ i = 1
    /\ new_rows = <<>>
    /\ run = NoRun
    /\ quiet = 0

NotCalled == [done |-> FALSE, eb2_date |-> None, eb3_date |-> None]

Init == InitSync /\ raw_data = FadGrid /\ located = NotCalled

Next == StartSync \/ FetchStep \/ Sleep \/ Finish \/ AdminReset \/ Publish \/ Tick

Spec == Init /\ [][Next]_vars

(***************************************************************************)
(* extract_india_dates on its own: every rectangular grid (a DataFrame's    *)
(* header and rows have one length) of up to MaxRows rows over CellTexts.   *)
(***************************************************************************)
CellTexts == {c_India, c_2nd, c_22nd, c_05FEB12}

Grids == UNION {[1..h -> [1..w -> CellTexts]] : h \in 1..MaxRows, w \in Widths}

ExtractIndiaDates ==
    /\ ~located.done
    /\ LET got == extract_india_dates(raw_data)
       IN  located' = [done |-> TRUE, eb2_date |-> got.eb2_date, eb3_date |-> got.eb3_date]
    /\ UNCHANGED <<syncVars, raw_data>>

InitLocate == InitSync /\ raw_data \in Grids /\ located = NotCalled

NextLocate == ExtractIndiaDates

SpecLocate == InitLocate /\ [][NextLocate]_vars

(***************************************************************************)
(* Properties                                                              *)
(***************************************************************************)
\* the persisted series, read back
Stored(f) == read_csv(f.rows)

\* the first day of the month of t, and of the month after it
MonthStart(t) == <<t[1], t[2], 1>>
MonthAfter(t) == IF t[2] = 12 THEN <<t[1] + 1, 1, 1>> ELSE <<t[1], t[2] + 1, 1>>

\* an extractor result with no concrete date in any of its four fields
AllAbsent(res) == res.eb2_fad = NaT /\ res.eb2_dof = NaT /\ res.eb3_fad = NaT /\ res.eb3_dof = NaT

\* the months fetched in the run, with their results
Fetched == {run.fetched[k] : k \in DOMAIN run.fetched}

\* C1: a second sync run right after a first one, with the site, the clock and
\* the store untouched in between, adds no record, leaves the persisted series
\* as the first run left it and signals no refresh.
C1_SyncIdempotent ==
    (run.done /\ quiet = 2) =>
        /\ run.added = 0
        /\ Len(run.series) = Len(Stored(run.file0))
        /\ file = run.file0
        /\ ~run.rerun

\* a second run that fetched again (a skipped month, the stop month) and added nothing
C1_Witness ==
    run.done /\ quiet = 2 /\ file.exists /\ Len(run.fetched) >= 2

\* C2: missing months are fetched in ascending order; when a month that is the
\* current month or later extracts to all-Absent it is not added, nothing is
\* fetched after it, and every month fetched before it whose extraction gave a
\* concrete date is in the resulting series.
C2_StopRule ==
    run.done =>
        /\ \A a, b \in DOMAIN run.fetched :
               a < b => DateLess(run.fetched[a].d, run.fetched[b].d)
        /\ \A k \in DOMAIN run.fetched :
               (DateGeq(run.fetched[k].d, MonthStart(run.today0)) /\ AllAbsent(run.fetched[k].res))
               => /\ k = Len(run.fetched)
                  /\ run.fetched[k].d \notin Bulletin_Dates(run.series)
                  /\ \A j \in 1..(k - 1) :
                         ~AllAbsent(run.fetched[j].res)
                         => run.fetched[j].d \in Bulletin_Dates(run.series)

\* C3: every fetched month whose result holds a concrete date in any of its four
\* fields has a record in the series after the run; only all-Absent months have none.
C3_AnyConcreteDateAppends ==
    run.done =>
        \A f \in Fetched : ~AllAbsent(f.res) => f.d \in Bulletin_Dates(run.series)

\* C4 as stated: in a run whose today is before the 25th no month after the
\* current month is fetched.
C4_ThresholdGatesNextMonth ==
    (run.today0 # NaT /\ run.today0[3] < 25) =>
        \A f \in Fetched : ~DateLess(MonthStart(run.today0), f.d)

\* C4 amended: on every day of the month the months a run takes as missing are
\* exactly the month starts from January 2017 through the next calendar month
\* that the loaded series lacks, and no month after the next one is fetched.
C4_HorizonIsNextMonth ==
    /\ pc # "idle" =>
           \A k \in DOMAIN Bulletins :
               (\E n \in DOMAIN missing_dates : missing_dates[n] = Bulletins[k])
               <=> (/\ ~DateLess(MonthAfter(run.today0), Bulletins[k])
                    /\ Bulletins[k] \notin Bulletin_Dates(df))
    /\ \A f \in Fetched : ~DateLess(MonthAfter(run.today0), f.d)

\* the next month's bulletin fetched on the 24th
C4_Witness ==
    /\ run.today0 # NaT
    /\ run.today0[3] < 25
    /\ \E f \in Fetched : f.d = MonthAfter(run.today0)

\* C5: the persisted series has strictly ascending bulletin dates (sorted, one
\* record per bulletin date).
C5_StoreStrictlyAscending ==
    \A a, b \in DOMAIN file.rows :
        a < b => DateLess(Stored(file)[a].Bulletin_Date, Stored(file)[b].Bulletin_Date)

\* a run that filled a gap before a month already stored
C5_Witness ==
    /\ run.done
    /\ run.added > 0
    /\ Len(run.file0.rows) > 0
    /\ DateLess(Stored(file)[1].Bulletin_Date, Stored(run.file0)[1].Bulletin_Date)

\* C6: a sync run leaves every stored record as it was: the store is untouched
\* while the run is under way and, after it, holds for every bulletin date
\* stored before exactly the record stored before.
C6_StoredRecordsKept ==
    /\ pc # "idle" => file = run.file0
    /\ run.done =>
           \A k \in DOMAIN run.file0.rows :
               /\ \E j \in DOMAIN file.rows : file.rows[j] = run.file0.rows[k]
               /\ \A j \in DOMAIN file.rows :
                      file.rows[j].Bulletin_Date = run.file0.rows[k].Bulletin_Date
                      => Stored(file)[j] = Stored(run.file0)[k]

\* a run that added records to a store that already held some
C6_Witness ==
    run.done /\ run.added > 0 /\ Len(run.file0.rows) > 0

\* C7: a run writes the store and signals the rerun exactly when it added a record.
C7_PersistIffAdded ==
    run.done =>
        /\ run.wrote <=> Len(run.series) > Len(Stored(run.file0))
        /\ run.rerun <=> Len(run.series) > Len(Stored(run.file0))
        /\ run.wrote <=> file # run.file0
        /\ run.added = Len(run.series) - Len(Stored(run.file0))

\* a run that skipped a past month, stopped at an unpublished one and wrote nothing
C7_Witness ==
    run.done /\ ~run.wrote /\ ~run.rerun /\ Len(run.fetched) >= 2

\* C8: when the loop is about to fetch and has fetched before in this run, the
\* pause has been taken since that fetch.
C8_PauseBetweenFetches ==
    (pc = "loop" /\ i <= Len(missing_dates) /\ run.fetched # <<>>) => run.sinceFetch = "slept"

\* C9: a past month that extracts to all-Absent gets no record, and after a run
\* every expected month before the current one is in the series or was fetched
\* in that run with an all-Absent result.
C9_SkipRule ==
    run.done =>
        /\ \A f \in Fetched :
               (DateLess(f.d, MonthStart(run.today0)) /\ AllAbsent(f.res))
               => f.d \notin Bulletin_Dates(run.series)
        /\ \A k \in DOMAIN Bulletins :
               DateLess(Bulletins[k], MonthStart(run.today0))
               => \/ Bulletins[k] \in Bulletin_Dates(run.series)
                  \/ \E f \in Fetched : f.d = Bulletins[k] /\ AllAbsent(f.res)

\* What lines 169-181 do ensure, with "absent" read as line 169 reads it (no
\* final action date in either category): such a month gets no record, stops
\* the run when it is the current month or later, and every other fetched
\* month has its record.
NoFinalActionRule ==
    run.done =>
        \A k \in DOMAIN run.fetched :
            LET f == run.fetched[k]
            IN  IF f.res.eb2_fad = NaT /\ f.res.eb3_fad = NaT
                THEN /\ f.d \notin Bulletin_Dates(run.series)
                     /\ DateGeq(f.d, MonthStart(run.today0)) => k = Len(run.fetched)
                ELSE f.d \in Bulletin_Dates(run.series)

\* C10, stated on the grid directly.
\* text holds token as a standalone token: an occurrence with no word character
\* on either side
Standalone(token, text) ==
    \E p \in 1..Len(text) :
        /\ p + Len(token) - 1 <= Len(text)
        /\ \A q \in 1..Len(token) : text[p + q - 1] = token[q]
        /\ p > 1 => text[p - 1] \notin WordChars
        /\ p + Len(token) <= Len(text) => text[p + Len(token)] \notin WordChars

HasLabel(label, text) ==
    \E p \in 1..Len(text) :
        /\ p + Len(label) - 1 <= Len(text)
        /\ \A q \in 1..Len(label) : text[p + q - 1] = label[q]

\* the cells that carry the country label, and the rows that carry the category
CountryCells(grid) ==
    {rc \in UNION {{<<r, c>> : c \in DOMAIN grid[r]} : r \in DOMAIN grid} :
        HasLabel(INDIA, upper(grid[rc[1]][rc[2]]))}

CategoryRows(grid, token) ==
    {r \in DOMAIN grid : \E c \in DOMAIN grid[r] : Standalone(token, upper(grid[r][c]))}

\* the first of a set of cells in reading order, the first of a set of rows
FirstCell(cells) ==
    CHOOSE rc \in cells :
        \A other \in cells : rc[1] < other[1] \/ (rc[1] = other[1] /\ rc[2] <= other[2])

FirstRow(rows) == CHOOSE r \in rows : \A other \in rows : r <= other

Located(grid, token) ==
    LET cells == CountryCells(grid)
        rows == CategoryRows(grid, token)
    IN  IF cells = {} \/ rows = {} THEN None
        ELSE IF FirstCell(cells)[2] > Len(grid[FirstRow(rows)]) THEN None
        ELSE grid[FirstRow(rows)][FirstCell(cells)[2]]

\* C10: extract_india_dates returns, for each category, the cell at the first
\* row carrying the category as a standalone token and the column of the first
\* cell (rows in order, cells left to right) containing the country label, and
\* nothing when there is no such row, no such cell or the row is too short.
C10_CellAtFirstRowFirstColumn ==
    located.done =>
        /\ located.eb2_date = Located(raw_data, T2ND)
        /\ located.eb3_date = Located(raw_data, T3RD)

\* a grid whose first row holds 22ND/3rd but no standalone 2ND, its third the
\* 2nd row: the third category comes from row 1, the second from row 3
C10_Witness ==
    /\ located.done
    /\ Len(raw_data) = 3
    /\ raw_data[1] = <<c_22nd, c_India>>
    /\ raw_data[2] = <<c_India, c_05FEB12>>
    /\ raw_data[3] = <<c_2nd, c_05FEB12>>
    /\ located.eb2_date = c_05FEB12
    /\ located.eb3_date = c_India

====
